---- MODULE Spec2Model ----
(***************************************************************************)
(* Model of src/wolframalpha/__init__.py: Client.query, the construction   *)
(* of Result / Pod / Subpod / Image / Assumption / Warning from the tree   *)
(* that xmltodict.parse produces, and the derived accessors.               *)
(*                                                                         *)
(* Python values are tagged records:                                       *)
(*   [kind |-> "absent"]            a key that the dict does not hold      *)
(*   [kind |-> "str",  s |-> ...]   a string                               *)
(*   [kind |-> "dict", tag |-> ..., ...]  a dict built from one element    *)
(*   [kind |-> "list", items |-> <<...>>] a list (repeated sibling tags)   *)
(*   [kind |-> "None"], [kind |-> "unset"]  None / attribute not yet set   *)
(* A constructor or accessor returns [ok |-> TRUE, val |-> v] or           *)
(* [ok |-> FALSE, exc |-> [type |-> ..., msg |-> <<...>>]].                *)
(***************************************************************************)
EXTENDS Integers, Sequences, FiniteSets, TLC

VARIABLES resp, pc, tree, info, pods, assumptions, warnings,
          iterQ, built, exc, calls, ret, asmNode, asm

vars == <<resp, pc, tree, info, pods, assumptions, warnings,
          iterQ, built, exc, calls, ret, asmNode, asm>>

\* Longest list of sibling <pod> elements in a document.
MaxPods == 2
\* Longest list of sibling <subpod> elements in a pod.
MaxSubpods == 2

----------------------------------------------------------------------------
\* Python values

Absent == [kind |-> "absent"]
None == [kind |-> "None"]
Unset == [kind |-> "unset"]
Str(s) == [kind |-> "str", s |-> s]
List(items) == [kind |-> "list", items |-> items]

NoExc == [type |-> "none", msg |-> <<>>]
Raise(type, msg) == [ok |-> FALSE, exc |-> [type |-> type, msg |-> msg]]
Return(v) == [ok |-> TRUE, val |-> v]

\* node[key] on a dict node: KeyError when the key is missing; on a str the
\* subscript with a str key is a TypeError.
GetItem(node, key) ==
  IF node.kind = "str"
    THEN Raise("TypeError", <<"string indices must be integers">>)
  ELSE IF key \notin DOMAIN node \/ node[key] = Absent
    THEN Raise("KeyError", <<key>>)
  ELSE Return(node[key])

\* The keys of a dict in xmltodict's order: attributes, then child elements.
Keys(node) ==
  CASE node.tag = "pod" ->
         <<"@title", "@scanner", "@id", "@position", "@error", "@numsubpods">>
         \o (IF node["@primary"] = Absent THEN <<>> ELSE <<"@primary">>)
         \o (IF node["subpod"] = Absent THEN <<>> ELSE <<"subpod">>)
         \o (IF node["error"] = Absent THEN <<>> ELSE <<"error">>)
    [] node.tag = "assumptions" -> <<"@count", "assumption">>
    [] node.tag = "warnings" -> <<"@count", "spellcheck">>
    [] OTHER -> <<>>

\* iter(value): a list yields its items, a dict yields its keys (strings).
Iterate(v) ==
  IF v.kind = "list" THEN v.items
  ELSE [i \in 1..Len(Keys(v)) |-> Str(Keys(v)[i])]

\* float(s) / int(s) on the numerals the documents use; ValueError otherwise.
ParseNumber(s) ==
  CASE s = "0" -> Return(0)
    [] s = "1" -> Return(1)
    [] s = "2" -> Return(2)
    [] s = "3" -> Return(3)
    [] s = "4" -> Return(4)
    [] s = "100" -> Return(100)
    [] s = "200" -> Return(200)
    [] OTHER -> Raise("ValueError", <<s>>)

\* list(map(ctor, items)) given the per-item outcomes: the first failure
\* propagates, otherwise the list of the constructed objects.
RECURSIVE MapResults(_)
MapResults(rs) ==
  IF rs = <<>> THEN Return(<<>>)
  ELSE IF ~Head(rs).ok THEN Head(rs)
  ELSE LET rest == MapResults(Tail(rs))
       IN  IF rest.ok THEN Return(<<Head(rs).val>> \o rest.val) ELSE rest

\* A normalisation that keeps only the first of several siblings.
ToList_first(v) == IF v.kind # "list" THEN <<v>> ELSE <<v.items[1]>>

\* The single-vs-list normalisation: "if type(x) != list: x = [x]".
ToList(v) == IF v.kind # "list" THEN <<v>> ELSE v.items

----------------------------------------------------------------------------
\* Image, Subpod, Pod

ImageInit(node) ==
  LET title == GetItem(node, "@title")
      alt == GetItem(node, "@alt")
      height == GetItem(node, "@height")
      width == GetItem(node, "@width")
      src == GetItem(node, "@src")
  IN  IF ~title.ok THEN title
      ELSE IF ~alt.ok THEN alt
      ELSE IF ~height.ok THEN height
      ELSE IF ~width.ok THEN width
      ELSE IF ~src.ok THEN src
      ELSE Return([class |-> "Image", node |-> node, title |-> title.val,
                   alt |-> alt.val, height |-> height.val,
                   width |-> width.val, src |-> src.val])

SubpodInit(node) ==
  LET title == GetItem(node, "@title")
      text == GetItem(node, "plaintext")
      img == GetItem(node, "img")
  IN  IF ~title.ok THEN title
      ELSE IF ~text.ok THEN text
      ELSE IF ~img.ok THEN img
      ELSE LET imgs == MapResults([i \in 1..Len(ToList(img.val)) |->
                                     ImageInit(ToList(img.val)[i])])
           IN  IF ~imgs.ok THEN imgs
               ELSE Return([class |-> "Subpod", node |-> node,
                            title |-> title.val, text |-> text.val,
                            img |-> imgs.val])

\* 'Error {code}: {msg}'.format(code=code, msg=msg), as its four pieces.
ErrorMessage(code, msg) == <<"Error ", code.s, ": ", msg.s>>

\* _handle_error with the test of the flag inverted.
HandleError_inverted(node, error_state) ==
  IF error_state # Str("false") THEN Return(None)
  ELSE LET error == GetItem(node, "error")
       IN  IF ~error.ok THEN error
           ELSE Raise("Exception",
                      ErrorMessage(error.val.code, error.val.msg))

\* _handle_error of Result and of Pod: the same body over the node and its
\* error flag.
HandleError(node, error_state) ==
  IF error_state = Str("false") THEN Return(None)
  ELSE LET error == GetItem(node, "error")
       IN  IF ~error.ok THEN error
           ELSE LET code == GetItem(error.val, "code")
                    msg == GetItem(error.val, "msg")
                IN  IF ~code.ok THEN code
                    ELSE IF ~msg.ok THEN msg
                    ELSE Raise("Exception", ErrorMessage(code.val, msg.val))

\* '@primary' in node and node['@primary'] != 'false'
PodPrimary(node) ==
  node["@primary"] # Absent /\ node["@primary"] # Str("false")

PodInit(node) ==
  LET error == GetItem(node, "@error")
  IN  IF ~error.ok THEN error
      ELSE LET handled == HandleError(node, error.val)
               title == GetItem(node, "@title")
               scanner == GetItem(node, "@scanner")
               id == GetItem(node, "@id")
               rawPosition == GetItem(node, "@position")
               position == ParseNumber(rawPosition.val.s)
               rawNumsubpods == GetItem(node, "@numsubpods")
               numsubpods == ParseNumber(rawNumsubpods.val.s)
               subpod == GetItem(node, "subpod")
           IN  IF ~handled.ok THEN handled
               ELSE IF ~title.ok THEN title
               ELSE IF ~scanner.ok THEN scanner
               ELSE IF ~id.ok THEN id
               ELSE IF ~rawPosition.ok THEN rawPosition
               ELSE IF ~position.ok THEN position
               ELSE IF ~rawNumsubpods.ok THEN rawNumsubpods
               ELSE IF ~numsubpods.ok THEN numsubpods
               ELSE IF ~subpod.ok THEN subpod
               ELSE LET subpods ==
                          MapResults([i \in 1..Len(ToList(subpod.val)) |->
                                        SubpodInit(ToList(subpod.val)[i])])
                    IN  IF ~subpods.ok THEN subpods
                        ELSE Return([class |-> "Pod", node |-> node,
                                     error |-> error.val,
                                     title |-> title.val,
                                     scanner |-> scanner.val,
                                     id |-> id.val,
                                     position |-> position.val,
                                     number_of_subpods |-> numsubpods.val,
                                     subpods |-> subpods.val,
                                     primary |-> PodPrimary(node)])

\* Pod.text: [subpod.text for subpod in self.subpods]
PodText(pod) == [i \in 1..Len(pod.subpods) |-> pod.subpods[i].text]

AssumptionInit(node) == [class |-> "Assumption", assumption |-> node]

WarningInit(node) == [class |-> "Warning", node |-> node]

\* obj.name: the instance attributes __init__ set, then the class's
\* properties; AttributeError otherwise.
GetAttr(obj, name) ==
  IF name \in DOMAIN obj \ {"class"} THEN Return(obj[name])
  ELSE IF obj.class = "Pod" /\ name = "text" THEN Return(PodText(obj))
  ELSE Raise("AttributeError", <<obj.class, name>>)

----------------------------------------------------------------------------
\* Result's derived views

\* The selection with the title test dropped.
ResultsFilter_primaryOnly(pod) == pod.primary

\* The condition of the comprehension in Result.results.
ResultsFilter(pod) == pod.primary \/ pod.title = Str("Result")

\* [pod for pod in self.pods if pod.primary or pod.title == 'Result']
ResultResults(self_pods) ==
  IF self_pods.kind # "list"
    THEN Raise("TypeError", <<"'NoneType' object is not iterable">>)
  ELSE Return(SelectSeq(self_pods.items, ResultsFilter))

\* {pod.title: pod.details for pod in ps}, inserted in order into acc.
RECURSIVE DetailsFold(_, _)
DetailsFold(ps, acc) ==
  IF ps = <<>> THEN Return(acc)
  ELSE LET key == Head(ps).title.s
           value == GetAttr(Head(ps), "details")
       IN  IF ~value.ok THEN value
           ELSE DetailsFold(Tail(ps),
                  [t \in DOMAIN acc \cup {key} |->
                     IF t = key THEN value.val ELSE acc[t]])

ResultDetails(self_pods) ==
  IF self_pods.kind # "list"
    THEN Raise("TypeError", <<"'NoneType' object is not iterable">>)
  ELSE DetailsFold(self_pods.items, <<>>)

----------------------------------------------------------------------------
\* Assumption.text.  A string is a sequence of tokens; "." and " " are
\* tokens of their own and no other token holds a period or a space, so the
\* substring ". " is the token "." followed by the token " ".

\* text.replace(old, new) for a one-token old.
RECURSIVE StrReplace(_, _, _)
StrReplace(text, old, new) ==
  IF text = <<>> THEN <<>>
  ELSE (IF Head(text) = old THEN new ELSE <<Head(text)>>)
       \o StrReplace(Tail(text), old, new)

\* text.index('. ') as a 1-based position of the period; 0 when the
\* substring does not occur (Python raises ValueError there).
StrIndexPeriodSpace(text) ==
  LET hits == {i \in 1..(Len(text) - 1) : text[i] = "." /\ text[i + 1] = " "}
  IN  IF hits = {} THEN 0
      ELSE CHOOSE i \in hits : \A j \in hits : i <= j

\* text[:text.index('. ') + 1]: the slice ends with the period itself.
TruncateSentence(text) == SubSeq(text, 1, StrIndexPeriodSpace(text))

AssumptionText(self) ==
  LET template == GetAttr(self, "template")
      description == GetAttr(self, "description")
      word == GetAttr(self, "word")
  IN  IF ~template.ok THEN template
      ELSE IF ~description.ok THEN description
      ELSE LET text1 == StrReplace(template.val.s, "${desc1}",
                                   description.val.s)
               text2 == IF word.ok /\ word.val.kind = "str"
                          THEN StrReplace(text1, "${word}", word.val.s)
                          ELSE text1
           IN  IF StrIndexPeriodSpace(text2) = 0
                 THEN Raise("ValueError", <<"substring not found">>)
               ELSE Return(Str(TruncateSentence(text2)))

----------------------------------------------------------------------------
\* The HTTP response headers, as email.message reports them.

Lower(s) ==
  CASE s = "TEXT/XML" -> "text/xml"
    [] s = "UTF-8" -> "utf-8"
    [] OTHER -> s

\* get_content_type(): lower-cased, "text/plain" when the header is missing.
GetContentType(r) ==
  IF r.ctype = Absent THEN Str("text/plain") ELSE Str(Lower(r.ctype.s))

\* get_param('charset'): the parameter as sent, None when there is none.
GetCharset(r) == IF r.charset = Absent THEN None ELSE r.charset

ContentTypeOk(r) == GetContentType(r) = Str("text/xml")

\* A charset check that compares without regard to case.
CharsetOk_caseless(r) ==
  r.charset # Absent /\ Lower(r.charset.s) = "utf-8"

CharsetOk(r) == GetCharset(r) = Str("utf-8")

----------------------------------------------------------------------------
\* Parsed documents (what xmltodict.parse hands over): attributes under
\* "@name", child elements under their tag, a repeated tag as a list and a
\* single occurrence as a bare value.

SeqsOf(S, lo, hi) == UNION {[1..n -> S] : n \in lo..hi}

\* The values a key can hold for nodes drawn from S with at most hi siblings.
Children(S, hi) == {Absent} \cup S \cup {List(q) : q \in SeqsOf(S, 2, hi)}

CountStr(v) ==
  CASE v = Absent -> "0"
    [] v.kind = "list" /\ Len(v.items) = 2 -> "2"
    [] v.kind = "list" /\ Len(v.items) = 3 -> "3"
    [] v.kind = "list" -> "4"
    [] OTHER -> "1"

ImgNode ==
  [kind |-> "dict", tag |-> "img"] @@ ("@title" :> Str("")) @@
  ("@alt" :> Str("alt")) @@ ("@height" :> Str("20")) @@
  ("@width" :> Str("100")) @@ ("@src" :> Str("http://img"))

SubpodNode(plaintext, img) ==
  [kind |-> "dict", tag |-> "subpod", plaintext |-> Str(plaintext),
   img |-> img] @@ ("@title" :> Str(""))

ErrorNode(code, msg) ==
  [kind |-> "dict", tag |-> "error", code |-> Str(code), msg |-> Str(msg)]

PodNode(error, errorInfo, title, primary, subpod) ==
  [kind |-> "dict", tag |-> "pod", subpod |-> subpod, error |-> errorInfo] @@
  ("@title" :> Str(title)) @@ ("@scanner" :> Str("Identity")) @@
  ("@id" :> Str(title)) @@ ("@position" :> Str("100")) @@
  ("@error" :> Str(error)) @@ ("@numsubpods" :> Str(CountStr(subpod))) @@
  ("@primary" :> primary)

AssumptionsNode ==
  [kind |-> "dict", tag |-> "assumptions",
   assumption |-> [kind |-> "dict", tag |-> "assumption"]] @@
  ("@count" :> Str("1"))

WarningsNode ==
  [kind |-> "dict", tag |-> "warnings",
   spellcheck |-> [kind |-> "dict", tag |-> "spellcheck"]] @@
  ("@count" :> Str("1"))

QueryResult(error, errorInfo, pod, assumptionsElt, warningsElt) ==
  [kind |-> "dict", tag |-> "queryresult", pod |-> pod,
   assumptions |-> assumptionsElt, warnings |-> warningsElt,
   error |-> errorInfo] @@
  ("@success" :> Str(IF error = "false" THEN "true" ELSE "false")) @@
  ("@error" :> Str(error))

Response(transport, ctype, charset, body) ==
  [transport |-> transport, ctype |-> ctype, charset |-> charset,
   body |-> body]

Xml(root) == [kind |-> "xml", root |-> root]
Garbage == [kind |-> "garbage"]

\* A response that passes both header checks.
GoodResponse(root) == Response("ok", Str("text/xml"), Str("utf-8"), Xml(root))

SubA == SubpodNode("A", ImgNode)
SubB == SubpodNode("B", List(<<ImgNode, ImgNode>>))
SubNoImg == SubpodNode("A", Absent)

OkPod == PodNode("false", Absent, "Input", Absent, SubA)

\* Documents for the error paths: sound pods, pods flagged as errors with and
\* without an <error> element, pods without subpods or images.
ErrPods ==
  {OkPod,
   PodNode("true", ErrorNode("3", "pod failed"), "Input", Absent, Absent),
   PodNode("true", Absent, "Input", Absent, Absent),
   PodNode("false", Absent, "Input", Absent, Absent),
   PodNode("false", Absent, "Input", Absent, SubNoImg)}

ErrDocs ==
  {QueryResult(e[1], e[2], p, a, w) :
     e \in {<<"false", Absent>>, <<"true", Absent>>,
            <<"true", ErrorNode("1", "Invalid input")>>,
            <<"true", ErrorNode("2", "Timeout")>>},
     p \in Children(ErrPods, MaxPods),
     a \in {Absent, AssumptionsNode}, w \in {Absent, WarningsNode}}

\* Documents for Result.results and the primary flag.
PrimaryValues == {Absent, Str("true"), Str("false"), Str("TRUE"), Str("1")}

ResultsPods ==
  {PodNode("false", Absent, t, p, SubA) :
     t \in {"Result", "result", "Input"}, p \in PrimaryValues}

ResultsDocs ==
  {QueryResult("false", Absent, p, Absent, Absent) :
     p \in Children(ResultsPods, MaxPods)}

\* Documents for the subpod normalisation.
SubpodPods ==
  {PodNode("false", Absent, "Input", Absent, sp) :
     sp \in Children({SubA, SubB}, MaxSubpods)}

SubpodDocs ==
  {QueryResult("false", Absent, p, Absent, Absent) :
     p \in Children(SubpodPods, MaxPods)}

\* Documents for Result.details: titles repeat, plaintexts differ.
DetailsPods ==
  {PodNode("false", Absent, t, Absent, sp) :
     t \in {"X", "Y"}, sp \in {SubA, SubB, List(<<SubB, SubA>>)}}

DetailsDocs ==
  {QueryResult("false", Absent, p, Absent, Absent) :
     p \in Children(DetailsPods, MaxPods)}

\* Responses for the header checks of Client.query.
QueryResponses ==
  {Response(t, c, cs, b) :
     t \in {"ok", "error"},
     c \in {Absent, Str("text/xml"), Str("TEXT/XML"), Str("text/html")},
     cs \in {Absent, Str("utf-8"), Str("UTF-8"), Str("iso-8859-1")},
     b \in {Garbage} \cup
           {Xml(QueryResult("false", Absent, p, AssumptionsNode, Absent)) :
              p \in {Absent, OkPod, List(<<OkPod, OkPod>>)}}}

\* Nodes for Assumption.text.
Templates ==
  {<<"Assuming", " ", "${desc1}", " ", "is", " ", "${word}", ".", " ",
     "Use", " ", "as", " ", "a", " ", "person", ".", " ", "More">>,
   <<"Assuming", " ", "${word}", " ", "is", " ", "${desc1}", ".", " ",
     "More">>,
   <<"${desc1}", ".", " ">>,
   <<"Assuming", " ", "${desc1}", ".">>}

AsmNodes ==
  {[kind |-> "dict", tag |-> "assumption", template |-> Str(t),
    description |-> Str(d), word |-> w] :
     t \in Templates,
     d \in {<<"Washington">>, <<"pi">>, <<"St", ".", " ", "Louis">>},
     w \in {Absent, Str(<<"a", " ", "state">>), Str(<<"x">>)}}

----------------------------------------------------------------------------
\* The state machine: Client.query, then Result.__init__ statement by
\* statement, then the accessors of the finished Result.

NoRet == [op |-> "none"]

InitWith(responses) ==
  /\ resp \in responses
  /\ pc = "query"
  /\ tree = Unset
  /\ info = Unset
  /\ pods = Unset
  /\ assumptions = Unset
  /\ warnings = Unset
  /\ iterQ = <<>>
  /\ built = <<>>
  /\ exc = NoExc
  /\ calls = 0
  /\ ret = NoRet
  /\ asmNode = Absent
  /\ asm = Unset

Init == InitWith({GoodResponse(d) : d \in ErrDocs})
InitResults == InitWith({GoodResponse(d) : d \in ResultsDocs})
InitSubpods == InitWith({GoodResponse(d) : d \in SubpodDocs})
InitDetails == InitWith({GoodResponse(d) : d \in DetailsDocs})
InitQuery == InitWith(QueryResponses)

\* urllib.request.urlopen(url): a transport failure propagates unchanged.
Query_urlopen ==
  /\ pc = "query"
  /\ IF resp.transport = "ok"
       THEN pc' = "assert_content_type" /\ exc' = exc
       ELSE pc' = "failed" /\ exc' = [type |-> "URLError", msg |-> <<>>]
  /\ UNCHANGED <<resp, tree, info, pods, assumptions, warnings, iterQ, built,
                 calls, ret, asmNode, asm>>

\* assert resp.headers.get_content_type() == 'text/xml'
Query_assert_content_type ==
  /\ pc = "assert_content_type"
  /\ IF ContentTypeOk(resp)
       THEN pc' = "assert_charset" /\ exc' = exc
       ELSE pc' = "failed" /\ exc' = [type |-> "AssertionError", msg |-> <<>>]
  /\ UNCHANGED <<resp, tree, info, pods, assumptions, warnings, iterQ, built,
                 calls, ret, asmNode, asm>>

\* assert resp.headers.get_param('charset') == 'utf-8'
Query_assert_charset ==
  /\ pc = "assert_charset"
  /\ IF CharsetOk(resp)
       THEN pc' = "Result" /\ exc' = exc
       ELSE pc' = "failed" /\ exc' = [type |-> "AssertionError", msg |-> <<>>]
  /\ UNCHANGED <<resp, tree, info, pods, assumptions, warnings, iterQ, built,
                 calls, ret, asmNode, asm>>

\* self.tree = xmltodict.parse(stream, ...)['queryresult']
Result_parse ==
  /\ pc = "Result"
  /\ IF resp.body.kind = "xml"
       THEN tree' = resp.body.root /\ pc' = "handle_error" /\ exc' = exc
       ELSE tree' = tree /\ pc' = "failed"
            /\ exc' = [type |-> "ExpatError", msg |-> <<>>]
  /\ UNCHANGED <<resp, info, pods, assumptions, warnings, iterQ, built,
                 calls, ret, asmNode, asm>>

\* self._handle_error(); self.info = []
Result_handle_error ==
  /\ pc = "handle_error"
  /\ LET error_state == GetItem(tree, "@error")
         r == IF error_state.ok THEN HandleError(tree, error_state.val)
              ELSE error_state
     IN  IF r.ok
           THEN info' = <<>> /\ pc' = "pods" /\ exc' = exc
           ELSE info' = info /\ pc' = "failed" /\ exc' = r.exc
  /\ UNCHANGED <<resp, tree, pods, assumptions, warnings, iterQ, built,
                 calls, ret, asmNode, asm>>

\* try: map(Pod, self.tree['pod']) ... except KeyError: self.pods = None
Result_pods_begin ==
  /\ pc = "pods"
  /\ LET pod == GetItem(tree, "pod")
     IN  IF pod.ok
           THEN iterQ' = Iterate(pod.val) /\ pods' = pods /\ pc' = "pods_map"
           ELSE iterQ' = iterQ /\ pods' = None /\ pc' = "assumptions"
  /\ built' = <<>>
  /\ UNCHANGED <<resp, tree, info, assumptions, warnings, exc, calls, ret,
                 asmNode, asm>>

\* One Pod(node) of the map: a KeyError leaves the try block with
\* self.pods = None, any other exception leaves Result.__init__.
Result_pods_next ==
  /\ pc = "pods_map"
  /\ iterQ # <<>>
  /\ calls' = calls + 1
  /\ LET r == PodInit(Head(iterQ))
     IN  IF r.ok
           THEN /\ built' = Append(built, r.val)
                /\ iterQ' = Tail(iterQ)
                /\ UNCHANGED <<pods, pc, exc>>
         ELSE IF r.exc.type = "KeyError"
           THEN /\ pods' = None
                /\ pc' = "assumptions"
                /\ iterQ' = <<>>
                /\ built' = <<>>
                /\ exc' = exc
         ELSE /\ pc' = "failed"
              /\ exc' = r.exc
              /\ UNCHANGED <<pods, iterQ, built>>
  /\ UNCHANGED <<resp, tree, info, assumptions, warnings, ret, asmNode, asm>>

\* self.pods = list(...); self.info.append(self.pods)
Result_pods_end ==
  /\ pc = "pods_map"
  /\ iterQ = <<>>
  /\ pods' = List(built)
  /\ info' = Append(info, List(built))
  /\ built' = <<>>
  /\ pc' = "assumptions"
  /\ UNCHANGED <<resp, tree, assumptions, warnings, iterQ, exc, calls, ret,
                 asmNode, asm>>

\* try: self.assumptions = list(map(Assumption, self.tree['assumptions']))
\*      self.info.append(self.assumptions)
\* except KeyError: self.assumptions = None
Result_assumptions ==
  /\ pc = "assumptions"
  /\ LET elt == GetItem(tree, "assumptions")
         items == Iterate(elt.val)
         objs == [i \in 1..Len(items) |-> AssumptionInit(items[i])]
     IN  IF elt.ok
           THEN /\ assumptions' = List(objs)
                /\ info' = Append(info, List(objs))
                /\ calls' = calls + Len(items)
           ELSE /\ assumptions' = None
                /\ UNCHANGED <<info, calls>>
  /\ pc' = "warnings"
  /\ UNCHANGED <<resp, tree, pods, warnings, iterQ, built, exc, ret,
                 asmNode, asm>>

\* try: self.warnings = list(map(Warning, self.tree['warnings']))
\*      self.info.append(self.warnings)
\* except KeyError: self.warnings = None
Result_warnings ==
  /\ pc = "warnings"
  /\ LET elt == GetItem(tree, "warnings")
         items == Iterate(elt.val)
         objs == [i \in 1..Len(items) |-> WarningInit(items[i])]
     IN  IF elt.ok
           THEN /\ warnings' = List(objs)
                /\ info' = Append(info, List(objs))
                /\ calls' = calls + Len(items)
           ELSE /\ warnings' = None
                /\ UNCHANGED <<info, calls>>
  /\ pc' = "done"
  /\ UNCHANGED <<resp, tree, pods, assumptions, iterQ, built, exc, ret,
                 asmNode, asm>>

Returned(op, r) ==
  IF r.ok THEN [op |-> op, ok |-> TRUE, val |-> r.val]
  ELSE [op |-> op, ok |-> FALSE, exc |-> r.exc]

\* list(iter(result)): Result.__iter__ is iter(self.info)
Result_iter ==
  /\ pc = "done"
  /\ ret' = Returned("iter", Return(info))
  /\ UNCHANGED <<resp, pc, tree, info, pods, assumptions, warnings, iterQ,
                 built, exc, calls, asmNode, asm>>

Result_results ==
  /\ pc = "done"
  /\ ret' = Returned("results", ResultResults(pods))
  /\ UNCHANGED <<resp, pc, tree, info, pods, assumptions, warnings, iterQ,
                 built, exc, calls, asmNode, asm>>

Result_details ==
  /\ pc = "done"
  /\ ret' = Returned("details", ResultDetails(pods))
  /\ UNCHANGED <<resp, pc, tree, info, pods, assumptions, warnings, iterQ,
                 built, exc, calls, asmNode, asm>>

\* result.pods[i].text
Pod_text ==
  /\ pc = "done"
  /\ pods.kind = "list"
  /\ \E i \in 1..Len(pods.items) :
       ret' = [op |-> "text", i |-> i, ok |-> TRUE,
               val |-> GetAttr(pods.items[i], "text").val]
  /\ UNCHANGED <<resp, pc, tree, info, pods, assumptions, warnings, iterQ,
                 built, exc, calls, asmNode, asm>>

Next ==
  \/ Query_urlopen
  \/ Query_assert_content_type
  \/ Query_assert_charset
  \/ Result_parse
  \/ Result_handle_error
  \/ Result_pods_begin
  \/ Result_pods_next
  \/ Result_pods_end
  \/ Result_assumptions
  \/ Result_warnings
  \/ Result_iter
  \/ Result_results
  \/ Result_details
  \/ Pod_text

Spec == Init /\ [][Next]_vars
SpecResults == InitResults /\ [][Next]_vars
SpecSubpods == InitSubpods /\ [][Next]_vars
SpecDetails == InitDetails /\ [][Next]_vars
SpecQuery == InitQuery /\ [][Next]_vars

\* Assumption(node), then its text property.
InitAssumption ==
  /\ asmNode \in AsmNodes
  /\ pc = "Assumption"
  /\ resp = Response("ok", Absent, Absent, Garbage)
  /\ tree = Unset
  /\ info = Unset
  /\ pods = Unset
  /\ assumptions = Unset
  /\ warnings = Unset
  /\ iterQ = <<>>
  /\ built = <<>>
  /\ exc = NoExc
  /\ calls = 0
  /\ ret = NoRet
  /\ asm = Unset

Assumption_init ==
  /\ pc = "Assumption"
  /\ asm' = AssumptionInit(asmNode)
  /\ calls' = calls + 1
  /\ pc' = "constructed"
  /\ UNCHANGED <<resp, tree, info, pods, assumptions, warnings, iterQ, built,
                 exc, ret, asmNode>>

Assumption_text ==
  /\ pc = "constructed"
  /\ ret' = Returned("text", AssumptionText(asm))
  /\ pc' = "read"
  /\ UNCHANGED <<resp, tree, info, pods, assumptions, warnings, iterQ, built,
                 exc, calls, asmNode, asm>>

NextAssumption == Assumption_init \/ Assumption_text

SpecAssumption == InitAssumption /\ [][NextAssumption]_vars

----------------------------------------------------------------------------
\* Properties

Range(f) == {f[i] : i \in DOMAIN f}

\* The document the response carries (the input of Result.__init__).
Root == resp.body.root

\* The <pod> elements of a document, however the parse shaped them.
RootPods(root) == IF root.pod = Absent THEN <<>> ELSE ToList(root.pod)

\* The Pod objects constructed so far.
ConstructedPods ==
  Range(built) \cup (IF pods.kind = "list" THEN Range(pods.items) ELSE {})

BeforeResult == pc \in {"query", "assert_content_type", "assert_charset"}

\* C1: Result.results is exactly the sub-sequence of Result.pods, in
\* document order, of the pods that are primary or titled exactly "Result":
\* the k-th result is the pod at the k-th selected index.
C1_ResultsAreSelectedPods ==
  (ret.op = "results" /\ pods.kind = "list") =>
    /\ ret.ok
    /\ LET P == pods.items
           keep == {i \in 1..Len(P) :
                      P[i].primary = TRUE \/ P[i].title.s = "Result"}
       IN  /\ Len(ret.val) = Cardinality(keep)
           /\ \A i \in keep :
                ret.val[Cardinality({j \in keep : j < i}) + 1] = P[i]

\* C1 witness: results kept a non-primary pod titled "Result" and dropped a
\* non-primary pod titled "result".
C1_Witness ==
  /\ ret.op = "results" /\ ret.ok /\ pods.kind = "list"
  /\ Len(ret.val) = 1
  /\ ret.val[1].title = Str("Result") /\ ~ret.val[1].primary
  /\ \E i \in 1..Len(pods.items) :
       pods.items[i].title = Str("result") /\ ~pods.items[i].primary

\* C2: a document whose error flag is true and that carries error.code and
\* error.msg makes Result.__init__ fail with a message holding both, before
\* any Pod, Assumption or Warning is constructed and before info, pods,
\* assumptions or warnings is set.
C2_DocumentErrorRaisedFirst ==
  ( /\ ~BeforeResult
    /\ pc \notin {"Result", "handle_error"}
    /\ resp.body.kind = "xml"
    /\ Root["@error"] = Str("true")
    /\ Root.error # Absent ) =>
    /\ pc = "failed"
    /\ exc.type = "Exception"
    /\ Root.error.code.s \in Range(exc.msg)
    /\ Root.error.msg.s \in Range(exc.msg)
    /\ calls = 0
    /\ built = <<>>
    /\ info = Unset /\ pods = Unset
    /\ assumptions = Unset /\ warnings = Unset

\* C2 witness: a document with pods, assumptions and an error element has
\* failed with the error's code and message.
C2_Witness ==
  /\ pc = "failed" /\ exc.type = "Exception"
  /\ exc.msg = <<"Error ", "1", ": ", "Invalid input">>
  /\ Root.pod # Absent /\ Root.assumptions # Absent

\* C3: when the document's error flag is false and one of its pods has its
\* own error flag true, Result.__init__ never completes.
C3_PodErrorAbortsResult ==
  ( /\ resp.body.kind = "xml"
    /\ Root["@error"] = Str("false")
    /\ \E i \in 1..Len(RootPods(Root)) :
         RootPods(Root)[i]["@error"] = Str("true") ) =>
    pc # "done"

\* The content type the headers declare is text/xml (a media type is
\* reported lower-cased), and the charset parameter is the token utf-8.
DeclaresTextXml == resp.ctype \in {Str("text/xml"), Str("TEXT/XML")}
DeclaresUtf8 == resp.charset = Str("utf-8")

\* C4: Client.query reaches the parse (Result construction) only after both
\* header checks passed; with any other content type or charset it fails
\* with the tree never parsed and nothing constructed, and a Result is
\* returned only for text/xml with charset utf-8.
C4_ParseOnlyAfterHeaderChecks ==
  /\ (pc \notin {"query", "assert_content_type", "assert_charset", "failed"}
       \/ tree # Unset) => (DeclaresTextXml /\ DeclaresUtf8)
  /\ (~(DeclaresTextXml /\ DeclaresUtf8) /\ ~BeforeResult) =>
       /\ pc = "failed"
       /\ exc.type \in {"AssertionError", "URLError"}
       /\ tree = Unset /\ calls = 0 /\ pods = Unset

\* C4 witness: a well-formed body sent as text/xml with charset UTF-8 was
\* rejected by the charset check without being parsed.
C4_Witness ==
  /\ pc = "failed" /\ exc.type = "AssertionError" /\ tree = Unset
  /\ resp.body.kind = "xml"
  /\ resp.ctype = Str("text/xml") /\ resp.charset = Str("UTF-8")

\* The number of <subpod> elements of a pod node, and the k-th of them.
SubpodCount(node) ==
  IF node.subpod.kind = "list" THEN Len(node.subpod.items) ELSE 1
SubpodElement(node, k) ==
  IF node.subpod.kind = "list" THEN node.subpod.items[k] ELSE node.subpod

\* C5: whether the pod node holds one subpod element or a list of them,
\* the constructed Pod.subpods is a sequence of Subpod, one per subpod
\* element and in their order, and the pod's list of subpod plaintexts has
\* the same length and order.
C5_SubpodsAlwaysSequence ==
  /\ \A pod \in ConstructedPods :
       /\ DOMAIN pod.subpods = 1..SubpodCount(pod.node)
       /\ \A k \in DOMAIN pod.subpods :
            /\ pod.subpods[k].class = "Subpod"
            /\ pod.subpods[k].node = SubpodElement(pod.node, k)
  /\ ret.op = "text" =>
       LET node == pods.items[ret.i].node
       IN  /\ DOMAIN ret.val = 1..SubpodCount(node)
           /\ \A k \in DOMAIN ret.val :
                ret.val[k] = SubpodElement(node, k).plaintext

\* C5 witness: in one Result, the texts of a pod with two subpod elements
\* were read next to a pod with a single, bare subpod element.
C5_Witness ==
  /\ ret.op = "text"
  /\ ret.val = <<Str("B"), Str("A")>>
  /\ \E i \in 1..Len(pods.items) :
       /\ pods.items[i].node.subpod.kind = "dict"
       /\ Len(pods.items[i].subpods) = 1

\* A pod node from which a Pod can be built: no error, at least one subpod,
\* every subpod with an image.
SoundPod(node) ==
  /\ node["@error"] = Str("false")
  /\ node.subpod # Absent
  /\ \A k \in 1..SubpodCount(node) : SubpodElement(node, k).img # Absent

ValidDocument ==
  /\ resp.body.kind = "xml"
  /\ Root["@error"] = Str("false")
  /\ \A i \in 1..Len(RootPods(Root)) : SoundPod(RootPods(Root)[i])

\* The number of children a key holds: none, one bare value, or a list.
ChildCount(v) ==
  IF v = Absent THEN 0 ELSE IF v.kind = "list" THEN Len(v.items) ELSE 1

\* C6: on a constructed Result pods, assumptions and warnings are each a
\* sequence with one item per child (empty when there is none), and
\* construction does not fail because a child occurs exactly once.
C6_ChildrenAlwaysSequences ==
  /\ (pc = "done" /\ ValidDocument) =>
       /\ pods.kind = "list" /\ Len(pods.items) = ChildCount(Root.pod)
       /\ assumptions.kind = "list"
       /\ Len(assumptions.items) = ChildCount(Root.assumptions)
       /\ warnings.kind = "list"
       /\ Len(warnings.items) = ChildCount(Root.warnings)
  /\ (ValidDocument /\ ChildCount(Root.pod) = 1) => pc # "failed"

\* C7: for a valid document with error flag false, Result.__init__ does not
\* raise, and iterating the Result yields every pod, then every assumption,
\* then every warning: len(pods) + len(assumptions) + len(warnings) items.
C7_InfoIsConcatenation ==
  ValidDocument =>
    /\ pc # "failed"
    /\ ret.op = "iter" =>
         /\ pods.kind = "list"
         /\ assumptions.kind = "list"
         /\ warnings.kind = "list"
         /\ Len(ret.val) = Len(pods.items) + Len(assumptions.items)
                             + Len(warnings.items)
         /\ ret.val = pods.items \o assumptions.items \o warnings.items

\* C8: Result.details maps exactly the pod titles, each to the first-subpod
\* plaintext of the last pod carrying that title, and does not fail when
\* every pod has a subpod.
C8_DetailsLastWriteWins ==
  ( /\ ret.op = "details"
    /\ pods.kind = "list"
    /\ \A i \in 1..Len(pods.items) : Len(pods.items[i].subpods) >= 1 ) =>
    /\ ret.ok
    /\ LET P == pods.items
           last(t) == CHOOSE i \in 1..Len(P) :
                        /\ P[i].title.s = t
                        /\ \A j \in (i + 1)..Len(P) : P[j].title.s # t
       IN  /\ DOMAIN ret.val = {P[i].title.s : i \in 1..Len(P)}
           /\ \A t \in DOMAIN ret.val :
                ret.val[t] = P[last(t)].subpods[1].text

\* C9: a Pod's primary is true exactly for the attribute value "true",
\* false for "false" and for an absent attribute, and any other value makes
\* the Pod's construction fail, so no Pod exists for such a node.
C9_PrimaryCoercion ==
  \A pod \in ConstructedPods :
    /\ pod.node["@primary"] \in {Absent, Str("true"), Str("false")}
    /\ pod.primary = (pod.node["@primary"] = Str("true"))

\* The template of a node with its placeholders substituted.
Substituted(node) ==
  LET withDesc == StrReplace(node.template.s, "${desc1}", node.description.s)
  IN  IF node.word = Absent THEN withDesc
      ELSE StrReplace(withDesc, "${word}", node.word.s)

\* C10: Assumption.text is the substituted template cut right after the
\* first period-space, the space included; a missing word is no failure,
\* and the computation fails when there is no period-space.
C10_AssumptionTextFirstSentence ==
  ret.op = "text" =>
    LET text == Substituted(asmNode)
        at == StrIndexPeriodSpace(text)
    IN  IF at = 0 THEN ~ret.ok
        ELSE ret.ok /\ ret.val = Str(SubSeq(text, 1, at + 1))

====
